---- MODULE Spec2Model ----
(***************************************************************************)
(* The perception / decision / action loop of android-action-kernel        *)
(* (src/kernel.py): get_screen_state, get_llm_decision, execute_action and *)
(* run_agent, with the device bridge (adb) and the language-model service  *)
(* as the environment.                                                     *)
(*                                                                         *)
(* A response text is a sequence of tokens: "{" and "}" are the brace      *)
(* characters, "prose" is a run of non-brace, non-JSON characters, and a   *)
(* body token names the member list of one JSON object ("tap" stands for   *)
(* "action": "tap", "coordinates": [10, 20], "reason": "r").  No body      *)
(* holds a brace.  A model identifier is a sequence of name fragments.     *)
(***************************************************************************)
EXTENDS Integers, Sequences, FiniteSets, TLC

VARIABLES
    LLM_PROVIDER,    \* kernel.py:37
    MODEL,           \* kernel.py:41,47,49
    max_steps,       \* run_agent's parameter
    pc,              \* position in run_agent, or how it ended
    step,            \* the for loop's variable: iterations completed
    action_history,  \* kernel.py:266
    screen_context,  \* kernel.py:273
    decision,        \* kernel.py:277
    result_text,     \* <<the response text get_llm_decision parsed>> until
                     \* execute_action is called, <<>> otherwise
    local_dump,      \* the file LOCAL_DUMP_PATH: "absent" or the snapshot in it
    captured,        \* whether this step's tree capture produced a document
    devlog,          \* the adb commands run so far, in order
    adb_running,     \* adb child processes started and not yet waited for
    issued,          \* adb commands execute_action ran in the current step
    settled,         \* the settle delay has elapsed since the last execute_action
    slept,           \* seconds spent in time.sleep so far
    nPerceive,       \* calls of get_screen_state
    nDecide,         \* calls of get_llm_decision
    nExecute,        \* calls of execute_action
    crash,           \* the exception that propagated out of the program, or "none"
    env,             \* the host: whether adb is installed, the provider credentials
    client,          \* kernel.py:38
    bedrock_client,  \* kernel.py:14
    call,            \* what the get_llm_decision call in progress has built and
                     \* used (its locals), Unset outside of it
    executed         \* the decisions handed to execute_action so far, in order

vars == <<LLM_PROVIDER, MODEL, max_steps, pc, step, action_history,
          screen_context, decision, result_text, local_dump, captured,
          devlog, adb_running, issued, settled, slept, nPerceive, nDecide,
          nExecute, crash, env, client, bedrock_client, call, executed>>

-----------------------------------------------------------------------------
(* Bounds *)

MaxSteps == 2

MaxEngineSteps == 5

-----------------------------------------------------------------------------
(* Configuration, kernel.py:31-50 *)

ADB_PATH == "adb"

SCREEN_DUMP_PATH == "/sdcard/window_dump.xml"

LOCAL_DUMP_PATH == "window_dump.xml"

\* The (LLM_PROVIDER, MODEL) pairs the environment variables are drawn from.
\* Any provider other than "groq" and "bedrock" takes the else branch.
Configs ==
    { <<"groq",    <<"llama", "-3.3-70b-versatile">> >>,
      <<"openai",  <<"gpt-4o">> >>,
      <<"azure",   <<"gpt-4o">> >>,
      <<"bedrock", <<"anthropic", ".claude-3-sonnet">> >>,
      <<"bedrock", <<"meta", ".llama3-8b">> >>,
      <<"bedrock", <<"us.", "Llama", "-custom">> >>,
      <<"bedrock", <<"amazon", ".titan-text">> >> }

\* The hosts the program may run on
Hosts == [adb : BOOLEAN, credentials : {"valid", "invalid", "missing"}]

\* A host with adb on the PATH and working provider credentials
HealthyHosts == {h \in Hosts : h.adb /\ h.credentials = "valid"}

-----------------------------------------------------------------------------
(* Python dict access *)

None == "None"

\* k in d
HasKey(d, k) == k \in DOMAIN d

\* d.get(k, default)
Get(d, k, default) == IF HasKey(d, k) THEN d[k] ELSE default

\* What a call that may raise gives back: the exception's name or "none",
\* and the value returned when none was raised.
Returned(v) == [raised |-> "none", value |-> v]

\* the value of a name not yet assigned
Unset == [unset |-> TRUE]

Raised(e) == [raised |-> e, value |-> Unset]

\* the dict {}
EmptyDict == [k \in {} |-> None]

-----------------------------------------------------------------------------
(* The provider clients, kernel.py:13-50 *)

\* client = None / bedrock_client = None
NoClient == [kind |-> "None"]

\* OpenAI(api_key=..., base_url=...)
OpenAIClient(provider) ==
    [kind |-> "OpenAI",
     base_url |-> IF provider = "groq" THEN "https://api.groq.com/openai/v1"
                                       ELSE "default"]

\* kernel.py:38-50, run when the module is loaded: the OpenAI client unless
\* the provider is bedrock; the constructor raises when it is given no key.
ConfigureClient(provider, credentials) ==
    IF provider = "bedrock" THEN Returned(NoClient)
    ELSE IF credentials = "missing" THEN Raised("OpenAIError")
    ELSE Returned(OpenAIClient(provider))

\* a get_bedrock_client without the None test: a new client on every call
GetBedrockClientAlwaysNew(handle) ==
    [kind |-> "bedrock-runtime",
     id |-> IF handle = NoClient THEN 1 ELSE handle.id + 1]

\* get_bedrock_client, kernel.py:16-29: the global after the call, which is
\* also what the call returns; id numbers the boto3.client(...) calls.
GetBedrockClient(handle) ==
    IF handle = NoClient THEN [kind |-> "bedrock-runtime", id |-> 1] ELSE handle

-----------------------------------------------------------------------------
(* The JSON objects a response may hold *)

Members(b) ==
    CASE b = "tap"          -> [action |-> "tap", coordinates |-> <<10, 20>>, reason |-> "r"]
      [] b = "tap_nocoords" -> [action |-> "tap", reason |-> "r"]
      [] b = "tap_onecoord" -> [action |-> "tap", coordinates |-> <<10>>, reason |-> "r"]
      [] b = "type"         -> [action |-> "type", text |-> <<"a", " ", "b">>, reason |-> "r"]
      [] b = "type_notext"  -> [action |-> "type", reason |-> "r"]
      [] b = "enter"        -> [action |-> "enter", reason |-> "r"]
      [] b = "swipe_up"     -> [action |-> "swipe", direction |-> "up", reason |-> "r"]
      [] b = "swipe_down"   -> [action |-> "swipe", direction |-> "down", reason |-> "r"]
      [] b = "swipe_left"   -> [action |-> "swipe", direction |-> "left", reason |-> "r"]
      [] b = "swipe_right"  -> [action |-> "swipe", direction |-> "right", reason |-> "r"]
      [] b = "swipe_nodir"  -> [action |-> "swipe", reason |-> "r"]
      [] b = "swipe_diag"   -> [action |-> "swipe", direction |-> "diagonal", reason |-> "r"]
      [] b = "home"         -> [action |-> "home", reason |-> "r"]
      [] b = "back"         -> [action |-> "back", reason |-> "r"]
      [] b = "wait"         -> [action |-> "wait", reason |-> "r"]
      [] b = "done"         -> [action |-> "done", reason |-> "r"]
      [] b = "fly"          -> [action |-> "fly", reason |-> "r"]
      [] b = "notag"        -> [reason |-> "r"]

Bodies ==
    {"tap", "tap_nocoords", "tap_onecoord", "type", "type_notext", "enter",
     "swipe_up", "swipe_down", "swipe_left", "swipe_right", "swipe_nodir",
     "swipe_diag", "home", "back", "wait", "done", "fly", "notag"}

Bare(b) == <<"{", b, "}">>

-----------------------------------------------------------------------------
(* json.loads and re.search on a response text *)

IsBrace(t) == t \in {"{", "}"}

\* json.loads(text): the object, or JSONDecodeError.  The only valid JSON
\* documents over the tokens are a pair of braces around one body or around
\* nothing.
JsonLoads(text) ==
    IF Len(text) = 3 /\ text[1] = "{" /\ text[3] = "}" /\ text[2] \in Bodies
    THEN Returned(Members(text[2]))
    ELSE IF text = <<"{", "}">>
    THEN Returned(EmptyDict)
    ELSE Raised("JSONDecodeError")

\* Whether text[i..j] matches \{[^{}]*\}
BraceMatch(text, i, j) ==
    /\ i < j
    /\ text[i] = "{"
    /\ text[j] = "}"
    /\ \A k \in (i + 1)..(j - 1) : ~IsBrace(text[k])

\* re.search(r'\{[^{}]*\}', text): the leftmost match as <<i, j>>, or <<>>
\* when there is none (the star cannot cross a brace, so a start has at most
\* one end).
ReSearch(text) ==
    LET starts == {i \in 1..Len(text) : \E j \in 1..Len(text) : BraceMatch(text, i, j)}
    IN  IF starts = {} THEN <<>>
        ELSE LET i == CHOOSE m \in starts : \A n \in starts : m <= n
                 j == CHOOSE n \in 1..Len(text) : BraceMatch(text, i, n)
             IN  <<i, j>>

\* json_match.group()
Group(text, m) == SubSeq(text, m[1], m[2])

\* The decision synthesized when no JSON object is found (kernel.py:250)
FallbackWait == [action |-> "wait", reason |-> "Failed to parse response, waiting"]

\* kernel.py:240-250: the bedrock path's tolerant parse
ParseTolerant(text) ==
    LET direct == JsonLoads(text)
    IN  IF direct.raised = "none" THEN direct
        ELSE LET m == ReSearch(text)
             IN  IF m # <<>> THEN JsonLoads(Group(text, m))
                 ELSE Returned(FallbackWait)

\* kernel.py:261: the OpenAI-compatible path's parse
ParseStrict(text) == JsonLoads(text)

-----------------------------------------------------------------------------
(* The bedrock model families, kernel.py:195-237 *)

\* str.lower() on a fragment of a model identifier
Lower(frag) ==
    CASE frag = "Llama" -> "llama"
      [] frag = "Meta" -> "meta"
      [] frag = "Anthropic" -> "anthropic"
      [] OTHER -> frag

\* needle in model
Contains(model, needle) == \E i \in 1..Len(model) : model[i] = needle

\* needle in model.lower()
ContainsLower(model, needle) == \E i \in 1..Len(model) : Lower(model[i]) = needle

\* The branch that packages the request (kernel.py:195, 205, 212)
RequestFamily(model) ==
    IF Contains(model, "anthropic") THEN "anthropic"
    ELSE IF Contains(model, "meta") \/ ContainsLower(model, "llama") THEN "meta"
    ELSE "other"

\* an unwrap branch that tests the identifier as written, not lowered
ResponseFamilyAsWritten(model) ==
    IF Contains(model, "anthropic") THEN "anthropic"
    ELSE IF Contains(model, "meta") \/ Contains(model, "llama") THEN "meta"
    ELSE "other"

\* The branch that unwraps the response (kernel.py:232, 234, 236)
ResponseFamily(model) ==
    IF Contains(model, "anthropic") THEN "anthropic"
    ELSE IF Contains(model, "meta") \/ ContainsLower(model, "llama") THEN "meta"
    ELSE "other"

\* request_body, kernel.py:197-220
RequestBody(model, user_content) ==
    CASE RequestFamily(model) = "anthropic" ->
            [anthropic_version |-> "bedrock-2023-05-31", max_tokens |-> 1024,
             messages |-> <<[role |-> "user", content |-> user_content]>>]
      [] RequestFamily(model) = "meta" ->
            [prompt |-> user_content, max_gen_len |-> 512]
      [] OTHER ->
            [inputText |-> user_content,
             textGenerationConfig |-> [maxTokenCount |-> 512]]

\* The service's reply to invoke_model: the payload of the schema the request
\* was written in, holding the model's text.
InvokeModel(request_body, text) ==
    IF HasKey(request_body, "anthropic_version")
    THEN [content |-> <<[type |-> "text", text |-> text]>>]
    ELSE IF HasKey(request_body, "prompt")
    THEN [generation |-> text]
    ELSE [results |-> <<[outputText |-> text]>>]

\* kernel.py:232-237: result_text, or the KeyError of a payload of another
\* schema
Unwrap(model, response_body) ==
    CASE ResponseFamily(model) = "anthropic" ->
            IF HasKey(response_body, "content")
            THEN Returned(response_body["content"][1]["text"])
            ELSE Raised("KeyError")
      [] ResponseFamily(model) = "meta" ->
            Returned(Get(response_body, "generation", <<>>))
      [] OTHER ->
            IF HasKey(response_body, "results")
            THEN Returned(response_body["results"][1]["outputText"])
            ELSE Raised("KeyError")

-----------------------------------------------------------------------------
(* History rendering, kernel.py:173-186 *)

\* a rendering that numbers the steps from 0
HistoryLineFromZero(i, a) ==
    LET reason == Get(a, "reason", "N/A")
    IN  IF a["action"] = "type"
        THEN [step |-> i, verb |-> "typed", text |-> Get(a, "text", <<>>), reason |-> reason]
        ELSE IF a["action"] = "tap"
        THEN [step |-> i, verb |-> "tapped", coordinates |-> Get(a, "coordinates", <<>>), reason |-> reason]
        ELSE [step |-> i, verb |-> a["action"], reason |-> reason]

\* One line of PREVIOUS_ACTIONS for the entry a at 0-based index i; the
\* caller has checked that a has the key "action".
HistoryLine(i, a) ==
    LET reason == Get(a, "reason", "N/A")
    IN  IF a["action"] = "type"
        THEN [step |-> i + 1, verb |-> "typed", text |-> Get(a, "text", <<>>), reason |-> reason]
        ELSE IF a["action"] = "tap"
        THEN [step |-> i + 1, verb |-> "tapped", coordinates |-> Get(a, "coordinates", <<>>), reason |-> reason]
        ELSE [step |-> i + 1, verb |-> a["action"], reason |-> reason]

\* history_str as its lines, or the KeyError of a['action'] on an entry
\* without the key
RenderHistory(history) ==
    IF \E i \in 1..Len(history) : ~HasKey(history[i], "action")
    THEN Raised("KeyError")
    ELSE Returned([i \in 1..Len(history) |-> HistoryLine(i - 1, history[i])])

\* user_content, kernel.py:188
UserContent(goal, context, history_lines) ==
    [goal |-> goal, screen_context |-> context, previous_actions |-> history_lines]

\* a get_llm_decision that records its answer in the list it was given
HistoryAfterDecisionAppends(history, d) == Append(history, d)

\* The caller's list after get_llm_decision returned d: the function is
\* handed the list itself and only iterates over it (kernel.py:175-185).
HistoryAfterDecision(history, d) == history

-----------------------------------------------------------------------------
(* get_llm_decision, kernel.py:128-261 *)

\* The schema a bedrock request body is written in
SchemaOf(request_body) ==
    IF HasKey(request_body, "anthropic_version") THEN "anthropic"
    ELSE IF HasKey(request_body, "prompt") THEN "meta"
    ELSE "other"

\* What the provider's API raises for the host's credentials, or "none"
ApiFailure(provider, credentials) ==
    IF credentials = "valid" THEN "none"
    ELSE IF provider = "bedrock"
    THEN (IF credentials = "missing" THEN "NoCredentialsError" ELSE "ClientError")
    ELSE "AuthenticationError"

\* The call with the model answering `text`: what it raises or returns;
\* result_text as <<the text it went on to parse>>, or <<>> when it raised
\* before it had one; the global bedrock_client after the call; and `call`,
\* the locals it got to build.
GetLLMDecision(provider, model, oa_client, bedrock, credentials, goal, context, history, text) ==
    LET rendered == RenderHistory(history)
        user_content == UserContent(goal, context, rendered.value)
        failure == ApiFailure(provider, credentials)
    IN  IF rendered.raised # "none"
        THEN [raised |-> rendered.raised, value |-> Unset, result_text |-> <<>>,
              bedrock_client |-> bedrock, call |-> Unset]
        ELSE IF provider = "bedrock"
        THEN LET handle == GetBedrockClient(bedrock)
                 request_body == RequestBody(model, user_content)
                 response_body == InvokeModel(request_body, text)
                 unwrapped == Unwrap(model, response_body)
                 sent == [user_content |-> user_content, client |-> handle,
                          request_body |-> request_body]
                 got == [user_content |-> user_content, client |-> handle,
                         request_body |-> request_body,
                         unwrapped_as |-> ResponseFamily(model)]
             IN  IF failure # "none"
                 THEN [raised |-> failure, value |-> Unset, result_text |-> <<>>,
                       bedrock_client |-> handle, call |-> sent]
                 ELSE IF unwrapped.raised # "none"
                 THEN [raised |-> unwrapped.raised, value |-> Unset,
                       result_text |-> <<>>, bedrock_client |-> handle,
                       call |-> got]
                 ELSE LET parsed == ParseTolerant(unwrapped.value)
                      IN  [raised |-> parsed.raised, value |-> parsed.value,
                           result_text |-> <<unwrapped.value>>,
                           bedrock_client |-> handle, call |-> got]
        ELSE LET used == [user_content |-> user_content, client |-> oa_client]
             IN  IF oa_client = NoClient
                 THEN [raised |-> "AttributeError", value |-> Unset,
                       result_text |-> <<>>, bedrock_client |-> bedrock,
                       call |-> used]
                 ELSE IF failure # "none"
                 THEN [raised |-> failure, value |-> Unset, result_text |-> <<>>,
                       bedrock_client |-> bedrock, call |-> used]
                 ELSE LET parsed == ParseStrict(text)
                      IN  [raised |-> parsed.raised, value |-> parsed.value,
                           result_text |-> <<text>>, bedrock_client |-> bedrock,
                           call |-> used]

-----------------------------------------------------------------------------
(* execute_action, kernel.py:77-126 *)

\* text.replace(" ", "%s") on a string given as its characters
ReplaceSpaces(text) == [i \in 1..Len(text) |-> IF text[i] = " " THEN "%s" ELSE text[i]]

\* Screen center coordinates, kernel.py:106
cx == 540

cy == 1200

\* time.sleep(2), kernel.py:122 and kernel.py:287
SleepSeconds == 2

\* What execute_action does with no exception: the adb commands it runs, in
\* order, whether it sleeps and whether it calls exit(0).
Effect(cmds, sleeps, exits) ==
    [raised |-> "none", cmds |-> cmds, slept |-> sleeps, exited |-> exits]

\* An exception out of execute_action, before any adb command
Fault(e) == [raised |-> e, cmds |-> <<>>, slept |-> FALSE, exited |-> FALSE]

ExecTap(action) ==
    IF ~HasKey(action, "coordinates")
    THEN Fault("TypeError")
    ELSE IF Len(action["coordinates"]) # 2
    THEN Fault("ValueError")
    ELSE Effect(<< <<"shell", "input", "tap",
                     ToString(action["coordinates"][1]),
                     ToString(action["coordinates"][2])>> >>, FALSE, FALSE)

ExecType(action) ==
    IF ~HasKey(action, "text")
    THEN Fault("AttributeError")
    ELSE Effect(<< <<"shell", "input", "text", ReplaceSpaces(action["text"])>> >>,
                FALSE, FALSE)

ExecSwipe(action) ==
    LET direction == Get(action, "direction", "up")
    IN  CASE direction = "up" ->
               Effect(<< <<"shell", "input", "swipe", ToString(cx), "1500", ToString(cx), "500", "300">> >>, FALSE, FALSE)
          [] direction = "down" ->
               Effect(<< <<"shell", "input", "swipe", ToString(cx), "500", ToString(cx), "1500", "300">> >>, FALSE, FALSE)
          [] direction = "left" ->
               Effect(<< <<"shell", "input", "swipe", "800", ToString(cy), "200", ToString(cy), "300">> >>, FALSE, FALSE)
          [] direction = "right" ->
               Effect(<< <<"shell", "input", "swipe", "200", ToString(cy), "800", ToString(cy), "300">> >>, FALSE, FALSE)
          [] OTHER -> Effect(<<>>, FALSE, FALSE)

\* a "done" branch that prints and returns
ExecDoneReturns == Effect(<<>>, FALSE, FALSE)

\* kernel.py:124-126: exit(0)
ExecDone == Effect(<<>>, FALSE, TRUE)

ExecuteAction(action) ==
    LET act_type == Get(action, "action", None)
    IN  CASE act_type = "tap" -> ExecTap(action)
          [] act_type = "type" -> ExecType(action)
          [] act_type = "home" ->
               Effect(<< <<"shell", "input", "keyevent", "KEYWORDS_HOME">> >>, FALSE, FALSE)
          [] act_type = "back" ->
               Effect(<< <<"shell", "input", "keyevent", "KEYWORDS_BACK">> >>, FALSE, FALSE)
          [] act_type = "enter" ->
               Effect(<< <<"shell", "input", "keyevent", "66">> >>, FALSE, FALSE)
          [] act_type = "swipe" -> ExecSwipe(action)
          [] act_type = "wait" -> Effect(<<>>, TRUE, FALSE)
          [] act_type = "done" -> ExecDone
          [] OTHER -> Effect(<<>>, FALSE, FALSE)

-----------------------------------------------------------------------------
(* The device bridge and get_screen_state, kernel.py:52-75 *)

\* run_adb_command: subprocess.run starts adb and waits for it to end, so
\* the command is in the log and no child is left running.
RunAdbCommand(log, command) == Append(log, <<ADB_PATH>> \o command)

\* a bridge call that starts adb and does not wait for it
AdbRunningAfterPopen(running) == running + 1

\* adb children still running after run_adb_command returns (subprocess.run
\* returns once the child has ended)
AdbRunningAfter(running) == running

RECURSIVE RunAll(_, _)
\* run_adb_command on each command of cmds in order
RunAll(log, cmds) ==
    IF cmds = <<>> THEN log
    ELSE RunAll(RunAdbCommand(log, Head(cmds)), Tail(cmds))

\* The file LOCAL_DUMP_PATH: absent, or holding the tree snapshot `snap`
\* (0: left by an earlier session; k > 0: captured in step k).
NoFile == [exists |-> FALSE]

DumpFile(snap) == [exists |-> TRUE, xml |-> snap]

\* The sentinel of kernel.py:69
CaptureError == [text |-> "Error: Could not capture screen."]

\* sanitizer.get_interactive_elements: the ordered list of the interactive
\* elements of the document
GetInteractiveElements(xml_content) == [elements_of |-> xml_content]

\* kernel.py:68-75 on the file as the two adb commands left it
ReadScreenState(file) ==
    IF ~file.exists
    THEN CaptureError
    ELSE [json |-> GetInteractiveElements(file.xml)]

\* The file after `adb pull`: the new snapshot when the capture produced a
\* document, the file as it was otherwise.
Pulled(file, ok, snap) == IF ok THEN DumpFile(snap) ELSE file

-----------------------------------------------------------------------------
(* run_agent, kernel.py:263-287 *)

GOAL == "goal"

Terminal == {"BudgetExhausted", "Done", "Crashed", "Stopped"}

\* a loop that runs one iteration more
InRangeInclusive(i, n) == i <= n

\* step in range(max_steps), kernel.py:268
InRange(i, n) == i < n

\* Texts the language model may answer with
Wrapped(b) == <<"prose", "{", b, "}", "prose">>

AllTexts ==
    {Bare(b) : b \in Bodies} \cup {Wrapped(b) : b \in {"tap", "wait", "done"}}
    \cup { <<>>, <<"prose">>, <<"{", "}">>, <<"{", "prose", "}">>,
           <<"prose", "{", "prose", "}", "{", "wait", "}">> }

\* The answers of a decision engine that returns well-formed actions only
EngineTexts == {Bare(b) : b \in {"tap", "type", "wait", "done"}}

InitWith(bound, hosts) ==
    /\ \E c \in Configs : LLM_PROVIDER = c[1] /\ MODEL = c[2]
    /\ max_steps \in 0..bound
    /\ env \in hosts
    /\ pc = "start"
    /\ step = 0
    /\ action_history = <<>>
    /\ screen_context = Unset
    /\ decision = Unset
    /\ result_text = <<>>
    /\ local_dump \in {NoFile, DumpFile(0)}
    /\ captured = FALSE
    /\ devlog = <<>>
    /\ adb_running = 0
    /\ issued = 0
    /\ settled = TRUE
    /\ slept = 0
    /\ nPerceive = 0
    /\ nDecide = 0
    /\ nExecute = 0
    /\ crash = "none"
    /\ client = NoClient
    /\ bedrock_client = NoClient
    /\ call = Unset
    /\ executed = <<>>

Init == InitWith(MaxSteps, Hosts)

\* kernel.py:37-50, then the call of run_agent (kernel.py:293,
\* federal_upi.py:36)
Startup ==
    /\ pc = "start"
    /\ LET r == ConfigureClient(LLM_PROVIDER, env.credentials)
       IN  /\ client' = r.value
           /\ crash' = r.raised
           /\ pc' = IF r.raised = "none" THEN "for" ELSE "Crashed"
    /\ UNCHANGED <<LLM_PROVIDER, MODEL, max_steps, step, action_history,
                   screen_context, decision, result_text, local_dump, captured,
                   devlog, adb_running, issued, settled, slept, nPerceive,
                   nDecide, nExecute, env, bedrock_client, call, executed>>

\* kernel.py:268: the loop head
ForStep ==
    /\ pc = "for"
    /\ pc' = IF InRange(step, max_steps) THEN "perceive" ELSE "BudgetExhausted"
    /\ UNCHANGED <<LLM_PROVIDER, MODEL, max_steps, step, action_history,
                   screen_context, decision, result_text, local_dump, captured,
                   devlog, adb_running, issued, settled, slept, nPerceive,
                   nDecide, nExecute, crash, env, client, bedrock_client, call,
                   executed>>

\* kernel.py:273: get_screen_state, the device producing a document or not;
\* without adb on the PATH subprocess.run raises FileNotFoundError.
Perceive ==
    /\ pc = "perceive"
    /\ nPerceive' = nPerceive + 1
    /\ IF ~env.adb
       THEN /\ pc' = "Crashed"
            /\ crash' = "FileNotFoundError"
            /\ UNCHANGED <<captured, local_dump, screen_context, devlog,
                           adb_running, issued>>
       ELSE /\ \E ok \in BOOLEAN :
                 /\ captured' = ok
                 /\ local_dump' = Pulled(local_dump, ok, step + 1)
                 /\ screen_context' = ReadScreenState(local_dump')
            /\ devlog' = RunAll(devlog,
                                << <<"shell", "uiautomator", "dump", SCREEN_DUMP_PATH>>,
                                   <<"pull", SCREEN_DUMP_PATH, LOCAL_DUMP_PATH>> >>)
            /\ adb_running' = AdbRunningAfter(AdbRunningAfter(adb_running))
            /\ issued' = 0
            /\ pc' = "decide"
            /\ UNCHANGED crash
    /\ UNCHANGED <<LLM_PROVIDER, MODEL, max_steps, step, action_history,
                   decision, result_text, settled, slept, nDecide, nExecute, env,
                   client, bedrock_client, call, executed>>

\* kernel.py:277-278: get_llm_decision, the model answering one of `texts`
Decide(texts) ==
    /\ pc = "decide"
    /\ \E text \in texts :
         LET r == GetLLMDecision(LLM_PROVIDER, MODEL, client, bedrock_client,
                                 env.credentials, GOAL, screen_context,
                                 action_history, text)
         IN  /\ result_text' = r.result_text
             /\ decision' = r.value
             /\ bedrock_client' = r.bedrock_client
             /\ call' = r.call
             /\ action_history' = HistoryAfterDecision(action_history, r.value)
             /\ crash' = r.raised
             /\ pc' = IF r.raised = "none" THEN "execute" ELSE "Crashed"
    /\ nDecide' = nDecide + 1
    /\ UNCHANGED <<LLM_PROVIDER, MODEL, max_steps, step, screen_context,
                   local_dump, captured, devlog, adb_running, issued, settled,
                   slept, nPerceive, nExecute, env, client, executed>>

\* kernel.py:281: execute_action
Execute ==
    /\ pc = "execute"
    /\ LET r == ExecuteAction(decision)
       IN  /\ devlog' = RunAll(devlog, r.cmds)
           /\ issued' = Len(r.cmds)
           /\ adb_running' = IF r.cmds = <<>> THEN adb_running
                                              ELSE AdbRunningAfter(adb_running)
           /\ slept' = IF r.slept THEN slept + SleepSeconds ELSE slept
           /\ crash' = r.raised
           /\ pc' = IF r.raised # "none" THEN "Crashed"
                    ELSE IF r.exited THEN "Done"
                    ELSE "append"
    /\ executed' = Append(executed, decision)
    /\ nExecute' = nExecute + 1
    /\ settled' = FALSE
    /\ result_text' = <<>>
    /\ call' = Unset
    /\ UNCHANGED <<LLM_PROVIDER, MODEL, max_steps, step, action_history,
                   screen_context, decision, local_dump, captured, nPerceive,
                   nDecide, env, client, bedrock_client>>

\* a history that keeps the latest entry only
HistoryAppendReplaces(history, d) == <<d>>

\* action_history.append(decision), kernel.py:284
HistoryAppend(history, d) == Append(history, d)

\* kernel.py:284
AppendHistory ==
    /\ pc = "append"
    /\ action_history' = HistoryAppend(action_history, decision)
    /\ pc' = "sleep"
    /\ UNCHANGED <<LLM_PROVIDER, MODEL, max_steps, step, screen_context,
                   decision, result_text, local_dump, captured, devlog,
                   adb_running, issued, settled, slept, nPerceive, nDecide,
                   nExecute, crash, env, client, bedrock_client, call, executed>>

\* kernel.py:287, and the loop variable's next value
Settle ==
    /\ pc = "sleep"
    /\ settled' = TRUE
    /\ slept' = slept + SleepSeconds
    /\ step' = step + 1
    /\ pc' = "for"
    /\ UNCHANGED <<LLM_PROVIDER, MODEL, max_steps, action_history,
                   screen_context, decision, result_text, local_dump, captured,
                   devlog, adb_running, issued, nPerceive, nDecide, nExecute,
                   crash, env, client, bedrock_client, call, executed>>

\* Ctrl+C: KeyboardInterrupt is raised wherever the main thread is and
\* propagates out of run_agent, which has no handler (federal_upi.py:35-38
\* catches it in main).
Interrupt ==
    /\ pc \notin Terminal
    /\ pc' = "Stopped"
    /\ UNCHANGED <<LLM_PROVIDER, MODEL, max_steps, step, action_history,
                   screen_context, decision, result_text, local_dump, captured,
                   devlog, adb_running, issued, settled, slept, nPerceive,
                   nDecide, nExecute, crash, env, client, bedrock_client, call,
                   executed>>

\* One step of the program
Advance(texts) ==
    \/ Startup
    \/ ForStep
    \/ Perceive
    \/ Decide(texts)
    \/ Execute
    \/ AppendHistory
    \/ Settle

Next ==
    \/ Advance(AllTexts)
    \/ Interrupt

Spec == Init /\ [][Next]_vars

\* The loop driven by a decision engine that returns well-formed actions,
\* on a healthy host
EngineInit == InitWith(MaxEngineSteps, HealthyHosts)

EngineNext ==
    \/ Advance(EngineTexts)
    \/ Interrupt

EngineSpec == EngineInit /\ [][EngineNext]_vars

-----------------------------------------------------------------------------
(* Vocabulary of the claims *)

ActionTags == {"tap", "type", "enter", "swipe", "home", "back", "wait", "done"}

Directions == {"up", "down", "left", "right"}

IsAction(d, tag) == HasKey(d, "action") /\ d["action"] = tag

KnownTag(d) == HasKey(d, "action") /\ d["action"] \in ActionTags

\* An object of the wire schema of the decision response
WireValid(d) ==
    /\ KnownTag(d)
    /\ HasKey(d, "reason")
    /\ HasKey(d, "coordinates") => Len(d["coordinates"]) = 2
    /\ HasKey(d, "direction") => d["direction"] \in Directions

\* A Tap without its two coordinates, a Type without its text
MissingRequiredField(d) ==
    \/ IsAction(d, "tap") /\ (HasKey(d, "coordinates") => Len(d["coordinates"]) # 2)
    \/ IsAction(d, "type") /\ ~HasKey(d, "text")

\* The response text get_llm_decision is parsing or has just parsed
HasResponse == result_text # <<>>

ResponseText == result_text[1]

-----------------------------------------------------------------------------
(* C1 *)

\* C1: with a decision engine that returns well-formed actions and never
\* Done, run_agent never raises, never runs more than max_steps iterations,
\* and when it returns (Budget-Exhausted) it has perceived, decided and
\* executed exactly max_steps times and nothing more can happen; short of
\* that it can always go on.  A run ends in Done only on a Done decision.
C1_BudgetExhausted ==
    /\ crash = "none" /\ pc # "Crashed"
    /\ nPerceive <= max_steps /\ nDecide <= max_steps /\ nExecute <= max_steps
    /\ pc = "Done" => IsAction(decision, "done")
    /\ pc = "BudgetExhausted" =>
          /\ nPerceive = max_steps /\ nDecide = max_steps /\ nExecute = max_steps
          /\ Len(action_history) = max_steps /\ step = max_steps
          /\ ~ENABLED EngineNext
    /\ pc \notin Terminal => ENABLED Advance(EngineTexts)

C1_Witness ==
    /\ pc = "BudgetExhausted"
    /\ max_steps = 5
    /\ nExecute = 5
    /\ \A i \in 1..Len(action_history) : IsAction(action_history[i], "tap")

-----------------------------------------------------------------------------
(* C2 *)

\* C2: a run is in Done exactly when the decision just executed is Done; it
\* is then the first Done, of step k = step + 1 <= max_steps, the run has
\* perceived, decided and executed exactly k times, and nothing more can
\* happen.  A Done decision never gets past execute_action.
C2_DoneStops ==
    /\ \A i \in 1..Len(action_history) : ~IsAction(action_history[i], "done")
    /\ pc \in {"append", "sleep"} => ~IsAction(decision, "done")
    /\ pc = "Done" =>
          /\ IsAction(decision, "done")
          /\ step + 1 <= max_steps
          /\ nPerceive = step + 1 /\ nDecide = step + 1 /\ nExecute = step + 1
          /\ Len(action_history) = step
          /\ ~ENABLED EngineNext

C2_Witness ==
    /\ pc = "Done"
    /\ action_history = <<Members("wait"), Members("wait")>>
    /\ nExecute = 3

-----------------------------------------------------------------------------
(* C3 *)

\* C3: get_llm_decision never raises a parse failure into run_agent, and
\* what it returns is an object of the wire schema.
C3_NeverFatalAlwaysValid ==
    /\ crash # "JSONDecodeError"
    /\ pc = "execute" => WireValid(decision)

-----------------------------------------------------------------------------
(* C4 *)

\* C4: executing a decision whose required field is missing or malformed
\* raises nothing out of the step and issues no device command.
C4_MissingFieldIsNoOp ==
    MissingRequiredField(decision) =>
        /\ pc # "Crashed"
        /\ pc \in {"append", "sleep"} => issued = 0

-----------------------------------------------------------------------------
(* C5 *)

\* C5: a run stopped by the user's interrupt has no partial step: every
\* perception has its decision, every decision its execution, every
\* execution its history entry and its settle delay.
C5_StoppedBetweenSteps ==
    pc = "Stopped" =>
        /\ nPerceive = nDecide
        /\ nDecide = nExecute
        /\ nExecute = Len(action_history)
        /\ settled

-----------------------------------------------------------------------------
(* C6 *)

\* C6: a decision with an unknown or missing action tag issues no device
\* command, and no later step raises on the history entry it left.
C6_UnknownTagIsNoOp ==
    /\ pc \in {"append", "sleep"} /\ ~KnownTag(decision) => issued = 0
    /\ (\E i \in 1..Len(action_history) : ~KnownTag(action_history[i])) =>
          ~(pc = "Crashed" /\ crash = "KeyError")

-----------------------------------------------------------------------------
(* C7 *)

\* The adb commands of the log that are screen captures
IsDump(cmd) == cmd[2] = "shell" /\ cmd[3] = "uiautomator"

\* C7: when a step's screen capture is about to begin, every earlier step
\* has run whole: its action executed, the adb child ended, its entry
\* appended and its settle delay elapsed.  Within a step, perception comes
\* before the decision, the decision before the execution, the execution
\* before the history append, the append before the settle delay; no adb
\* child is ever left running.
C7_StepsInOrder ==
    /\ adb_running = 0
    /\ pc = "perceive" =>
          /\ settled
          /\ nPerceive = step /\ nDecide = step /\ nExecute = step
          /\ Len(action_history) = step
    /\ pc = "decide" =>
          nPerceive = step + 1 /\ nDecide = step /\ nExecute = step
    /\ pc = "execute" =>
          nPerceive = step + 1 /\ nDecide = step + 1 /\ nExecute = step
    /\ pc = "append" =>
          nExecute = step + 1 /\ Len(action_history) = step /\ ~settled
    /\ pc = "sleep" =>
          nExecute = step + 1 /\ Len(action_history) = step + 1 /\ ~settled
    /\ pc = "for" => settled /\ nExecute = step /\ Len(action_history) = step
    /\ pc \in {"for", "perceive"} => slept >= SleepSeconds * step
    /\ Len(devlog) >= 1 /\ pc \in {"append", "sleep"} /\ issued = 1 =>
          ~IsDump(devlog[Len(devlog)])

C7_Witness ==
    /\ pc = "perceive"
    /\ step = 1
    /\ issued = 1
    /\ settled
    /\ devlog[Len(devlog)][3] = "input"

-----------------------------------------------------------------------------
(* C8 *)

\* An action's JSON inside prose: prose around it, or prose that itself
\* holds braces before it
Embeddings(b) ==
    {Wrapped(b), <<"prose", "{", "prose", "}", "{", b, "}">>}

\* C8: a response that embeds an action's JSON in prose yields, on every
\* provider, the decision the bare JSON yields.
C8_ProseYieldsSameAction ==
    \A b \in Bodies :
        HasResponse /\ ResponseText \in Embeddings(b) =>
            /\ pc = "execute"
            /\ decision = JsonLoads(Bare(b)).value

-----------------------------------------------------------------------------
(* C9 *)

\* Whether neither the direct parse nor the substring parse gives an object
Unparseable(text) ==
    /\ JsonLoads(text).raised # "none"
    /\ \/ ReSearch(text) = <<>>
       \/ JsonLoads(Group(text, ReSearch(text))).raised # "none"

\* The documented reason, and the wording of kernel.py:250
ParseFailureReasons ==
    {"failed to parse response", "Failed to parse response, waiting"}

\* C9: on a response neither parse accepts, get_llm_decision raises nothing
\* and returns Wait with the parse-failure reason, on every provider.
C9_UnparseableYieldsWait ==
    HasResponse /\ Unparseable(ResponseText) =>
        /\ pc = "execute"
        /\ IsAction(decision, "wait")
        /\ Get(decision, "reason", None) \in ParseFailureReasons

-----------------------------------------------------------------------------
(* C10 *)

\* C10: in a step whose tree capture produced no document, the screen
\* context handed to get_llm_decision is the sentinel error string, never the
\* element list of an earlier snapshot, and the run has not failed on it.
C10_SentinelOnCaptureFailure ==
    pc = "decide" /\ ~captured =>
        /\ screen_context = CaptureError
        /\ crash = "none"

-----------------------------------------------------------------------------
(* C11 *)

\* What the caller of run_agent gets: the return value once the loop has run
\* out (kernel.py:268-287 falls off the end: None), SystemExit(0) from exit(0)
\* (kernel.py:126), or the exception that propagated.
RunAgentOutcome(p, exc) ==
    CASE p = "BudgetExhausted" -> [kind |-> "return", value |-> None]
      [] p = "Done" -> [kind |-> "raise", exc |-> "SystemExit", code |-> 0]
      [] p = "Crashed" -> [kind |-> "raise", exc |-> exc]
      [] p = "Stopped" -> [kind |-> "raise", exc |-> "KeyboardInterrupt"]
      [] OTHER -> [kind |-> "running"]

DoneExecuted == \E i \in 1..Len(executed) : IsAction(executed[i], "done")

\* C11: the outcome of run_agent tells Done from budget exhaustion: it is
\* SystemExit exactly when a Done was executed, and a normal return only
\* when max_steps actions were executed and none of them was Done.
C11_OutcomeTellsDoneFromBudget ==
    LET o == RunAgentOutcome(pc, crash)
    IN  /\ (o.kind = "raise" /\ o.exc = "SystemExit") <=> DoneExecuted
        /\ o.kind = "return" =>
              /\ ~DoneExecuted
              /\ nExecute = max_steps
              /\ Len(executed) = max_steps

C11_Witness ==
    /\ RunAgentOutcome(pc, crash).kind = "return"
    /\ max_steps = 2
    /\ Len(executed) = 2

-----------------------------------------------------------------------------
(* C12 *)

IsPrefix(s, t) == Len(s) <= Len(t) /\ SubSeq(t, 1, Len(s)) = s

HistoryRecordsExecuted ==
    /\ IsPrefix(action_history, executed)
    /\ Len(executed) <= Len(action_history) + 1
    /\ pc \in {"start", "for", "perceive", "decide", "execute", "sleep",
               "BudgetExhausted"} => action_history = executed
    /\ pc = "append" => executed = Append(action_history, decision)
    /\ pc = "Done" => /\ executed = Append(action_history, decision)
                      /\ IsAction(decision, "done")
    /\ \A i \in 1..Len(action_history) : ~IsAction(action_history[i], "done")

-----------------------------------------------------------------------------
(* C13 *)

\* A decision request has been built and not yet consumed
RequestBuilt == HasKey(call, "user_content")

PreviousActions == call.user_content.previous_actions

\* The summary of the entry a on line l: a Type by its typed text, a Tap by
\* its coordinates, any other entry by its action name
Summarizes(l, a) ==
    CASE a["action"] = "type" ->
            /\ l.verb = "typed"
            /\ HasKey(l, "text")
            /\ l.text = a["text"]
      [] a["action"] = "tap" ->
            /\ l.verb = "tapped"
            /\ HasKey(l, "coordinates")
            /\ l.coordinates = a["coordinates"]
      [] OTHER ->
            /\ l.verb = a["action"]
            /\ DOMAIN l = {"step", "verb", "reason"}

\* C13: the rendered history has one line per entry in step order, line i
\* numbered i (1-based), summarizing a Type by its literal text, a Tap by
\* its coordinates and any other entry by its action name, each followed by
\* the entry's reason.
C13_HistoryRendering ==
    RequestBuilt =>
        /\ Len(PreviousActions) = Len(action_history)
        /\ \A i \in 1..Len(action_history) :
              /\ PreviousActions[i].step = i
              /\ Summarizes(PreviousActions[i], action_history[i])
              /\ PreviousActions[i].reason = action_history[i]["reason"]

\* After Type then Tap(10,20): typed text for step 1, coordinates for step 2
C13_Witness ==
    /\ RequestBuilt
    /\ Len(action_history) = 2
    /\ IsAction(action_history[1], "type")
    /\ IsAction(action_history[2], "tap")
    /\ PreviousActions[1] = [step |-> 1, verb |-> "typed",
                             text |-> <<"a", " ", "b">>, reason |-> "r"]
    /\ PreviousActions[2] = [step |-> 2, verb |-> "tapped",
                             coordinates |-> <<10, 20>>, reason |-> "r"]

-----------------------------------------------------------------------------
(* C14 *)

\* The exceptions of an absent device bridge, of invalid or missing provider
\* credentials and of a provider client that was never created
FatalFailures ==
    {"FileNotFoundError", "OpenAIError", "AuthenticationError", "ClientError",
     "NoCredentialsError", "AttributeError"}

\* C14: a fatal failure propagates out of the program only before the first
\* step has begun, never from inside the loop.
C14_FatalOnlyAtSessionStart ==
    (pc = "Crashed" /\ crash \in FatalFailures) => nPerceive = 0

-----------------------------------------------------------------------------
(* C15 *)

\* The adb commands issued by the latest execute_action
LastIssued == SubSeq(devlog, Len(devlog) - issued + 1, Len(devlog))

\* What `input keyevent` accepts for the platform's confirm, Home and Back
\* keys: the key code, its name, or the name without its prefix
PlatformKeys(tag) ==
    CASE tag = "enter" -> {"66", "KEYCODE_ENTER", "ENTER"}
      [] tag = "home" -> {"3", "KEYCODE_HOME", "HOME"}
      [] tag = "back" -> {"4", "KEYCODE_BACK", "BACK"}

\* cmds is exactly one adb input command of the given kind
OneInput(cmds, kind) ==
    /\ Len(cmds) = 1
    /\ Len(cmds[1]) > 4
    /\ SubSeq(cmds[1], 1, 4) = <<ADB_PATH, "shell", "input", kind>>

\* The device effect the executor mapping gives the action d
MappedEffect(d, cmds) ==
    CASE d["action"] = "tap" ->
            /\ OneInput(cmds, "tap")
            /\ Tail(Tail(Tail(Tail(cmds[1])))) =
                  <<ToString(d["coordinates"][1]), ToString(d["coordinates"][2])>>
      [] d["action"] = "type" -> OneInput(cmds, "text") /\ Len(cmds[1]) = 5
      [] d["action"] \in {"enter", "home", "back"} ->
            /\ OneInput(cmds, "keyevent")
            /\ Len(cmds[1]) = 5
            /\ cmds[1][5] \in PlatformKeys(d["action"])
      [] d["action"] = "swipe" ->
            /\ OneInput(cmds, "swipe")
            /\ Len(cmds[1]) = 9
            /\ cmds[1][9] = "300"
      [] d["action"] \in {"wait", "done"} -> cmds = <<>>

\* C15: the executor maps every action of the schema to its device effect:
\* one tap at (x,y), one text input, one key event with the platform's
\* confirm / Home / Back key, one swipe of constant duration, and no device
\* command for Wait and Done.
C15_ExecutorMapping ==
    (pc \in {"append", "Done"} /\ WireValid(decision)) =>
        MappedEffect(decision, LastIssued)

\* The mapping without the Home and Back rows
ExecutorMappingButNavigationKeys ==
    (pc \in {"append", "Done"} /\ WireValid(decision)
        /\ decision["action"] \notin {"home", "back"}) =>
        MappedEffect(decision, LastIssued)

-----------------------------------------------------------------------------
(* C16 *)

\* The steps that are calls of get_llm_decision and of execute_action
EngineOrExecutorStep == pc \in {"decide", "execute"}

SessionDataUnchanged == action_history' = action_history /\ step' = step

\* C16: get_llm_decision and execute_action leave the history and the step
\* counter as they found them; the history changes only at run_agent's
\* append and the step counter only at the end of run_agent's iteration,
\* each once per step.
C16_SessionDataOwnedByLoop ==
    /\ [][EngineOrExecutorStep => SessionDataUnchanged]_vars
    /\ [][action_history' # action_history =>
             pc = "append" /\ action_history' = Append(action_history, decision)]_vars
    /\ [][step' # step => pc = "sleep" /\ step' = step + 1]_vars
    /\ [](Len(action_history) \in {step, step + 1})

\* get_llm_decision and execute_action have both run on a history that is
\* not empty
C16_Witness ==
    /\ pc = "append"
    /\ step = 1
    /\ Len(action_history) = 1
    /\ nDecide = 2
    /\ nExecute = 2

-----------------------------------------------------------------------------
(* C17 *)

\* The request in hand is the one of step `step + 1`, and its
\* PREVIOUS_ACTIONS are the decisions executed in steps 1..step, in order
RequestFromEarlierDecisions ==
    /\ nDecide = step + 1
    /\ Len(executed) = step
    /\ Len(PreviousActions) = step
    /\ \A i \in 1..step : PreviousActions[i] = HistoryLine(i - 1, executed[i])

\* C17: the request of step n is built from exactly the n-1 decisions of
\* steps 1..n-1 in order; the decision of the current step is appended only
\* after it was executed; a Done is never appended.
C17_RequestBuiltFromEarlierSteps ==
    /\ RequestBuilt => RequestFromEarlierDecisions
    /\ pc \in {"execute", "append", "Done"} => Len(action_history) = step
    /\ pc = "sleep" =>
          /\ Len(action_history) = step + 1
          /\ action_history[step + 1] = decision
          /\ executed[step + 1] = decision
    /\ \A i \in 1..Len(action_history) : ~IsAction(action_history[i], "done")
    /\ pc = "Done" => /\ IsAction(decision, "done")
                      /\ Len(executed) = Len(action_history) + 1

\* The request of step 3, built from two different decisions
C17_Witness ==
    /\ RequestBuilt
    /\ step = 2
    /\ nDecide = 3
    /\ executed[1] # executed[2]
    /\ Len(PreviousActions) = 2

-----------------------------------------------------------------------------
(* C18 *)

\* Model identifiers of one or two fragments, in either spelling
ModelFragments ==
    {"anthropic", "Anthropic", "meta", "Meta", "llama", "Llama", "amazon", ".titan"}

ModelIds ==
    {<<a>> : a \in ModelFragments} \cup (ModelFragments \X ModelFragments)

\* The reply to the request packaged for `model` is unwrapped by the branch
\* of the request's own family, and yields the model's text
SameFamilyBothWays(model) ==
    LET request_body == RequestBody(model, GOAL)
        response_body == InvokeModel(request_body, <<"prose">>)
    IN  /\ SchemaOf(request_body) = ResponseFamily(model)
        /\ Unwrap(model, response_body) = Returned(<<"prose">>)

\* C18: on bedrock the family branch that packaged the request is the one
\* that unwraps the response of the same call, so no response is read with
\* another family's schema: for every identifier MODEL may be set to (a
\* fact about the two branch tests alone, evaluated once, where the program
\* starts), and in every call a run makes.
C18_SameFamilyBranch ==
    /\ pc = "start" => \A model \in ModelIds : SameFamilyBothWays(model)
    /\ HasKey(call, "unwrapped_as") =>
          /\ LLM_PROVIDER = "bedrock"
          /\ SchemaOf(call.request_body) = call.unwrapped_as
          /\ crash # "KeyError"

\* A response unwrapped for an identifier that is a llama only when lowered
C18_Witness ==
    /\ HasKey(call, "unwrapped_as")
    /\ Contains(MODEL, "Llama")
    /\ call.unwrapped_as = "meta"
    /\ HasKey(call.request_body, "prompt")
    /\ pc = "execute"

-----------------------------------------------------------------------------
(* C19 *)

\* The client handles in a state: the one the call in hand dispatched to is
\* an initialized client of the kind its branch uses; the bedrock handle is
\* absent until the first bedrock call and is the first one created ever
\* after.
ClientInitializedBeforeUse ==
    /\ RequestBuilt /\ LLM_PROVIDER # "bedrock" =>
          /\ call.client # NoClient
          /\ call.client.kind = "OpenAI"
          /\ call.client = client
    /\ RequestBuilt /\ LLM_PROVIDER = "bedrock" =>
          /\ call.client # NoClient
          /\ call.client.kind = "bedrock-runtime"
          /\ call.client = bedrock_client
    /\ nPerceive > 0 /\ LLM_PROVIDER # "bedrock" => client.kind = "OpenAI"
    /\ bedrock_client # NoClient =>
          /\ LLM_PROVIDER = "bedrock"
          /\ nDecide > 0
          /\ bedrock_client.id = 1

\* C19: whatever the provider selection, the client get_llm_decision
\* dispatches to was initialized before the call: the OpenAI-compatible
\* client is not None on the non-bedrock branch, and the bedrock client is
\* created by the first bedrock call and the same handle serves every later
\* one.
C19_ClientInitializedBeforeUse ==
    /\ []ClientInitializedBeforeUse
    /\ [][bedrock_client # NoClient => bedrock_client' = bedrock_client]_vars
    /\ [][pc # "start" => client' = client]_vars

\* The second bedrock call of a run, on the handle the first call created
C19_Witness ==
    /\ LLM_PROVIDER = "bedrock"
    /\ nDecide = 2
    /\ RequestBuilt
    /\ call.client = bedrock_client
    /\ bedrock_client.id = 1

====
